---- MODULE Spec2Model ----
(***************************************************************************)
(* Model of the midio front-end script: microphone capture into blocks,    *)
(* PCM assembly (mergeBuffers), WAV encoding (createWavBlob) and the       *)
(* embed / extract submissions.  The repository carries the script twice   *)
(* (src/unnamed/part_000 and src/static/script.js); where the two differ   *)
(* the variable `script` says which one the page has loaded.               *)
(***************************************************************************)
EXTENDS Integers, Sequences, FiniteSets, TLC

(***************************************************************************)
(* Bounds of the model.                                                    *)
(***************************************************************************)
\* longest buffer handed to createWavBlob in the encoder specification
MaxLen == 2
\* samples per delivered block (the code asks for 4096)
bufferSize == 2
\* blocks the driver delivers to one session
MaxBlocks == 2
\* submissions sent per run
MaxRequests == 2
\* capture sessions per run: the streams getUserMedia has handed out plus
\* the start clicks still waiting for one
MaxSessions == 2

(***************************************************************************)
(* State                                                                   *)
(***************************************************************************)
VARIABLES
    script,                 \* which of the two script files the page loaded
    \* globals of the script
    audioContext,           \* 0 (undefined) or the session whose context it is
    mediaStreamSource,      \* 0 or the session whose source node it is
    recorder,               \* 0 or the session whose ScriptProcessor it is
    recordedBlob,           \* Null or the Blob of the last recording
    currentRecording,       \* window.currentRecording: NoRecording or a record
    \* objects made by the successful starts, by session number
    nSessions,              \* sessions made so far
    streams,                \* track state of each stream: "none", "live", "stopped"
    recorderConnected,      \* recorder k is connected to source and destination
    sourceConnected,        \* source k is connected
    chunksOf,               \* the chunks array captured by recorder k's callback
    contextRate,            \* audioContext.sampleRate of session k
    pendingStarts,          \* start handlers waiting in getUserMedia
    device,                 \* the input device in use when the page loads
    \* DOM
    startRecordBtnDisabled,
    stopRecordBtnDisabled,
    recordingStatus,        \* [text, show]
    recordedAudio,          \* [src, hidden]
    audioFileInputFiles,    \* audioFileInput.files.length
    audioFileNameShow,
    \* history
    delivered,              \* the blocks the driver handed to session k, in order
    merged,                 \* the PCM buffer the last stop handed to createWavBlob
    encodedRate,            \* the sample rate it handed to createWavBlob with it
    stopOutcome,            \* what the last click on the stop button came to
    lastAlert,              \* the text of the last alert()
    \* submissions
    uploadAudioDivHidden,   \* the record tab, not the upload tab, is shown
    imageFileInputFiles,    \* imageFileInput.files.length
    extractImageFileInputFiles,
    loadingHidden,
    embedResult,            \* [content, hidden]
    extractResult,          \* [content, hidden]
    requests,               \* the kinds of the submissions in flight, oldest first
    nSent,                  \* the fetch calls made so far
    downloads,              \* the files a.click() has saved, in order
    settled,                \* the submission settled last: its response and outcome
    \* the encoder called on its own
    wavBuf, wavRate, wavBlob

(***************************************************************************)
(* Numbers.  A Float32 sample is a dyadic rational; the model keeps it as   *)
(* an integer numerator over SampleDen, so that s = n / SampleDen.          *)
(***************************************************************************)
SampleDen == 2^16
One == SampleDen
Half == SampleDen \div 2

\* the sample values the encoder specification feeds to createWavBlob:
\* -1.5, -1, -0.5, -3/65536, -1/65536, 0, 1/65536, 0.25, 0.5, 1, 1.5
Samples == { -(3 * Half), -One, -Half, -3, -1, 0, 1, Half \div 2, Half, One, 3 * Half }

\* sample rates of the input devices
DeviceRates == << 44100, 48000 >>
SampleRates == { DeviceRates[d] : d \in 1..Len(DeviceRates) }

\* the signal at the microphone, one period of it: 0.5, -0.5, 1.5 (clipping),
\* -3/65536, 0.25
MicSignal == << Half, -Half, 3 * Half, -3, Half \div 2 >>

Min(a, b) == IF a < b THEN a ELSE b
Max(a, b) == IF a > b THEN a ELSE b

\* A Number that need not be integral: whole + frac / SampleDen, with
\* 0 <= frac < SampleDen
Number(whole, frac) == [whole |-> whole, frac |-> frac]

\* ToIntegerOrInfinity of a finite Number: the fraction is dropped, toward zero
ToIntegerFloor(x) == x.whole
ToInteger(x) == IF x.whole < 0 /\ x.frac > 0 THEN x.whole + 1 ELSE x.whole

(***************************************************************************)
(* DataView over an ArrayBuffer: a sequence of bytes, offset o at index    *)
(* o + 1.                                                                  *)
(***************************************************************************)
ArrayBuffer(n) == [i \in 1..n |-> 0]

SetAt(view, offset, bytes) ==
    [i \in 1..Len(view) |->
        IF i - 1 >= offset /\ i - 1 < offset + Len(bytes)
        THEN bytes[i - offset] ELSE view[i]]

setUint8(view, offset, v) == SetAt(view, offset, << v % 256 >>)

setUint16BigEndian(view, offset, v) ==
    LET u == v % 65536
    IN  SetAt(view, offset, << u \div 256, u % 256 >>)
setUint16(view, offset, v) ==
    LET u == v % 65536
    IN  SetAt(view, offset, << u % 256, u \div 256 >>)

\* the four low bytes of v, which is v modulo 2^32, little-endian
setUint32(view, offset, v) ==
    SetAt(view, offset, << v % 256, (v \div 256) % 256,
                              (v \div 65536) % 256, (v \div 16777216) % 256 >>)

\* setInt16 of a Number: ToInt16 drops the fraction and wraps modulo 2^16;
\* the two's complement is stored little-endian
setInt16(view, offset, x) == setUint16(view, offset, ToInteger(x))

getUint16(view, offset) == view[offset + 1] + 256 * view[offset + 2]

getUint32(view, offset) ==
    view[offset + 1] + 256 * view[offset + 2] + 65536 * view[offset + 3]
        + 16777216 * view[offset + 4]

getInt16(view, offset) ==
    LET u == getUint16(view, offset)
    IN  IF u >= 32768 THEN u - 65536 ELSE u

\* character codes of the four chunk tags
RIFF == << 82, 73, 70, 70 >>
WAVE == << 87, 65, 86, 69 >>
FMT == << 102, 109, 116, 32 >>
DATA == << 100, 97, 116, 97 >>

RECURSIVE writeStringFrom(_, _, _, _)
writeStringFrom(view, offset, string, i) ==
    IF i > Len(string) THEN view
    ELSE writeStringFrom(setUint8(view, offset + i - 1, string[i]), offset, string, i + 1)

writeString(view, offset, string) == writeStringFrom(view, offset, string, 1)

(***************************************************************************)
(* createWavBlob                                                           *)
(***************************************************************************)
HeaderSize == 44

ChunkSizeWholeFile(buf) == HeaderSize + Len(buf) * 2
ChunkSize(buf) == 36 + Len(buf) * 2

Subchunk2SizeWholeFile(buf) == HeaderSize + Len(buf) * 2
Subchunk2Size(buf) == Len(buf) * 2

ByteRate(sr) == sr * 2

\* Math.max(-1, Math.min(1, s))
ClampNone(s) == s
Clamp(s) == Max(-One, Min(One, s))

\* s < 0 ? s * 0x8000 : s * 0x7fff.  With s = q + r / SampleDen the product
\* is q * k + (r * k) / SampleDen, exact as the double product is
Times(s, k) ==
    LET q == s \div SampleDen
        r == s % SampleDen
    IN  Number(q * k + (r * k) \div SampleDen, (r * k) % SampleDen)

Scale(s) == IF s < 0 THEN Times(s, 32768) ELSE Times(s, 32767)

RECURSIVE writeSamples(_, _, _, _)
writeSamples(view, buf, i, offset) ==
    IF i > Len(buf) THEN view
    ELSE writeSamples(setInt16(view, offset, Scale(Clamp(buf[i]))), buf, i + 1, offset + 2)

WavHeader(buf, sr) ==
    LET v0  == ArrayBuffer(HeaderSize + Len(buf) * 2)
        v1  == writeString(v0, 0, RIFF)
        v2  == setUint32(v1, 4, ChunkSize(buf))
        v3  == writeString(v2, 8, WAVE)
        v4  == writeString(v3, 12, FMT)
        v5  == setUint32(v4, 16, 16)
        v6  == setUint16(v5, 20, 1)
        v7  == setUint16(v6, 22, 1)
        v8  == setUint32(v7, 24, sr)
        v9  == setUint32(v8, 28, ByteRate(sr))
        v10 == setUint16(v9, 32, 2)
        v11 == setUint16(v10, 34, 16)
        v12 == writeString(v11, 36, DATA)
    IN  setUint32(v12, 40, Subchunk2Size(buf))

Null == [type |-> "null"]
Blob(bytes, type) == [type |-> type, bytes |-> bytes]

createWavBlobOfContext(buf, sr) ==
    LET rate == IF audioContext = 0 THEN sr ELSE contextRate[audioContext]
    IN  Blob(writeSamples(WavHeader(buf, rate), buf, 1, HeaderSize), "audio/wav")
createWavBlob(buf, sr) == Blob(writeSamples(WavHeader(buf, sr), buf, 1, HeaderSize), "audio/wav")

\* the 16-bit value stored for sample i (1-based) of the input
StoredSample(bytes, i) == getInt16(bytes, 44 + 2 * (i - 1))

(***************************************************************************)
(* mergeBuffers                                                            *)
(***************************************************************************)
RECURSIVE SumLengths(_, _)
SumLengths(chunks, i) ==
    IF i > Len(chunks) THEN 0 ELSE Len(chunks[i]) + SumLengths(chunks, i + 1)

RECURSIVE mergeFrom(_, _, _, _)
mergeFrom(out, chunks, i, off) ==
    IF i > Len(chunks) THEN out
    ELSE mergeFrom(SetAt(out, off, chunks[i]), chunks, i + 1, off + Len(chunks[i]))

mergeBuffers(chunks) == mergeFrom(ArrayBuffer(SumLengths(chunks, 1)), chunks, 1, 0)

(***************************************************************************)
(* Groups of variables and the initial states                              *)
(***************************************************************************)
globalVars == << audioContext, mediaStreamSource, recorder, recordedBlob, currentRecording >>
heapVars == << nSessions, streams, recorderConnected, sourceConnected, chunksOf, contextRate >>
domVars == << startRecordBtnDisabled, stopRecordBtnDisabled, recordingStatus,
              recordedAudio, audioFileInputFiles, audioFileNameShow >>
captureVars == << globalVars, heapVars, domVars, pendingStarts, device >>
historyVars == << delivered, merged, encodedRate, stopOutcome, lastAlert >>
wavVars == << wavBuf, wavRate, wavBlob >>
formVars == << uploadAudioDivHidden, imageFileInputFiles, extractImageFileInputFiles >>
transferVars == << formVars, loadingHidden, embedResult, extractResult, requests, nSent,
                  downloads, settled >>
vars == << script, captureVars, historyVars, wavVars, transferVars >>

\* the rate the context of session k reports: the user changes to the next
\* device between one session and the next
DeviceRate(k) == DeviceRates[((device + k) % Len(DeviceRates)) + 1]

Scripts == { "part_000", "static" }
Sessions == 1..MaxSessions
NoRecording == [stream |-> 0, chunks |-> 0, sampleRate |-> 0]
NoAlert == [prefix |-> "", message |-> ""]

InitCapture ==
    /\ audioContext = 0 /\ mediaStreamSource = 0 /\ recorder = 0
    /\ recordedBlob = Null
    /\ currentRecording = NoRecording
    /\ nSessions = 0
    /\ streams = [k \in Sessions |-> "none"]
    /\ recorderConnected = [k \in Sessions |-> FALSE]
    /\ sourceConnected = [k \in Sessions |-> FALSE]
    /\ chunksOf = [k \in Sessions |-> << >>]
    /\ contextRate = [k \in Sessions |-> 0]
    /\ pendingStarts = 0
    /\ device \in 1..Len(DeviceRates)
    /\ startRecordBtnDisabled = FALSE
    \* the markup that sets the initial state of the stop button is not part
    \* of the script: both are admitted
    /\ stopRecordBtnDisabled \in BOOLEAN
    /\ recordingStatus = [text |-> "", show |-> FALSE]
    /\ recordedAudio = [src |-> Null, hidden |-> TRUE]
    /\ audioFileInputFiles = 0
    /\ audioFileNameShow = FALSE
    /\ delivered = [k \in Sessions |-> << >>]
    /\ merged = << >>
    /\ encodedRate = 0
    /\ stopOutcome = "none"
    /\ lastAlert = NoAlert

InitWav == wavBuf = << >> /\ wavRate = 0 /\ wavBlob = Null

NoResult == [content |-> "", hidden |-> TRUE]
NetworkError == [ok |-> FALSE, body |-> "<no response>"]
NoneSettled ==
    [kind |-> "", id |-> 0, response |-> NetworkError, outcome |-> [type |-> "", text |-> ""]]

\* the page as its markup shows it: the upload tab, nothing chosen, the
\* loading indicator and the results hidden
InitTransfer ==
    /\ uploadAudioDivHidden = FALSE
    /\ imageFileInputFiles = 0
    /\ extractImageFileInputFiles = 0
    /\ loadingHidden = TRUE
    /\ embedResult = NoResult
    /\ extractResult = NoResult
    /\ requests = << >>
    /\ nSent = 0
    /\ downloads = << >>
    /\ settled = NoneSettled

Init == script \in Scripts /\ InitCapture /\ InitWav /\ InitTransfer

\* the capture state after one session of no block: start, access granted, stop
Recorded ==
    /\ device = 1
    /\ audioContext = 1 /\ mediaStreamSource = 1 /\ recorder = 1
    /\ recordedBlob = createWavBlob(<< >>, DeviceRate(1))
    /\ currentRecording = NoRecording
    /\ nSessions = 1
    /\ streams = [k \in Sessions |-> IF k = 1 THEN "stopped" ELSE "none"]
    /\ recorderConnected = [k \in Sessions |-> FALSE]
    /\ sourceConnected = [k \in Sessions |-> FALSE]
    /\ chunksOf = [k \in Sessions |-> << >>]
    /\ contextRate = [k \in Sessions |-> IF k = 1 THEN DeviceRate(1) ELSE 0]
    /\ pendingStarts = 0
    /\ startRecordBtnDisabled = FALSE
    /\ stopRecordBtnDisabled = TRUE
    /\ recordingStatus = [text |-> "saved", show |-> TRUE]
    /\ recordedAudio = [src |-> recordedBlob, hidden |-> FALSE]
    /\ audioFileInputFiles = 0
    /\ audioFileNameShow = FALSE
    /\ delivered = [k \in Sessions |-> << >>]
    /\ merged = << >>
    /\ encodedRate = DeviceRate(1)
    /\ stopOutcome = "recorded"
    /\ lastAlert = NoAlert

InitSubmissions ==
    /\ script \in Scripts
    /\ \/ InitCapture /\ device = 1 /\ stopRecordBtnDisabled
       \/ Recorded
    /\ InitWav /\ InitTransfer

(***************************************************************************)
(* Recording: the start and stop handlers and the recorder's callback      *)
(***************************************************************************)
\* reasons getUserMedia rejects with
DeviceErrors == { "Permission denied", "Requested device not found" }

\* the text before err.message in the start handler's alert (static/script.js
\* puts a cross mark in front of its text)
MicAlertPrefix ==
    IF script = "part_000" THEN "Error accessing mic: "
    ELSE "Could not access microphone: "

\* the j-th block the driver of session k delivers: bufferSize samples of
\* the signal at the microphone
Block(k, j) ==
    [i \in 1..bufferSize |->
        MicSignal[((k + (j - 1) * bufferSize + i - 1) % Len(MicSignal)) + 1]]

\* a click on the start button; the handler suspends in getUserMedia.  A
\* disabled button dispatches no click.
StartClick ==
    /\ ~startRecordBtnDisabled
    /\ nSessions + pendingStarts < MaxSessions
    /\ pendingStarts' = pendingStarts + 1
    /\ UNCHANGED << device, script, globalVars, heapVars, domVars, historyVars, wavVars, transferVars >>

\* startRecordBtn.disabled = true; stopRecordBtn.disabled = false;
StartControlsStartOnly ==
    /\ startRecordBtnDisabled' = TRUE
    /\ stopRecordBtnDisabled' = stopRecordBtnDisabled
StartControls ==
    /\ startRecordBtnDisabled' = TRUE
    /\ stopRecordBtnDisabled' = FALSE

\* getUserMedia resolved: the rest of the try block runs without suspending
GetUserMediaResolve ==
    /\ pendingStarts > 0
    /\ LET k == nSessions + 1
           rate == DeviceRate(k)
       IN
        /\ nSessions' = k
        /\ streams' = [streams EXCEPT ![k] = "live"]
        /\ contextRate' = [contextRate EXCEPT ![k] = rate]
        /\ audioContext' = k
        /\ mediaStreamSource' = k
        /\ recorder' = k
        /\ chunksOf' = [chunksOf EXCEPT ![k] = << >>]
        /\ sourceConnected' = [sourceConnected EXCEPT ![k] = TRUE]
        /\ recorderConnected' = [recorderConnected EXCEPT ![k] = TRUE]
        /\ currentRecording' = [stream |-> k, chunks |-> k, sampleRate |-> rate]
    /\ StartControls
    /\ recordingStatus' = [text |-> "recording", show |-> TRUE]
    /\ pendingStarts' = pendingStarts - 1
    /\ UNCHANGED << device, script, recordedBlob, recordedAudio, audioFileInputFiles,
                    audioFileNameShow, historyVars, wavVars, transferVars >>

\* what the catch block of the start handler does to the capture state
CatchStartClearsSession ==
    /\ currentRecording' = NoRecording
    /\ UNCHANGED << audioContext, mediaStreamSource, recorder, recordedBlob,
                    heapVars, domVars >>
CatchStart == UNCHANGED << globalVars, heapVars, domVars >>

\* getUserMedia rejected: the catch block alerts
GetUserMediaReject ==
    /\ pendingStarts > 0
    /\ pendingStarts' = pendingStarts - 1
    /\ \E m \in DeviceErrors : lastAlert' = [prefix |-> MicAlertPrefix, message |-> m]
    /\ CatchStart
    /\ UNCHANGED << device, script, delivered, merged, encodedRate, stopOutcome, wavVars, transferVars >>

\* chunks.push(new Float32Array(e.inputBuffer.getChannelData(0)))
onaudioprocessUnshift(chunks, block) == << block >> \o chunks
onaudioprocess(chunks, block) == Append(chunks, block)

\* new Float32Array(...) copies: what the chunks pushed before hold once the
\* driver has filled its delivery buffer (e.inputBuffer, used again for every
\* event) with the next block.  Chunks that were views of that buffer would
\* all show the new block.
DriverWriteToViews(chunks, block) == [i \in DOMAIN chunks |-> block]
DriverWrite(chunks, block) == chunks

\* the driver hands the next block to recorder k.  Events the audio thread
\* has queued are still dispatched after the node is disconnected.
AudioProcess(k) ==
    /\ k \in 1..nSessions
    /\ Len(delivered[k]) < MaxBlocks
    /\ LET block == Block(k, Len(delivered[k]) + 1) IN
        /\ delivered' = [delivered EXCEPT ![k] = Append(@, block)]
        /\ chunksOf' = [chunksOf EXCEPT ![k] = onaudioprocess(DriverWrite(@, block), block)]
    /\ UNCHANGED << script, globalVars, nSessions, streams, recorderConnected,
                    sourceConnected, contextRate, domVars, pendingStarts, device, merged,
                    encodedRate,
                    stopOutcome, lastAlert, wavVars, transferVars >>

\* if (!window.currentRecording) return;
StopGuardAbsent == FALSE
StopGuard == currentRecording = NoRecording

\* stream.getTracks().forEach(t => t.stop())
StopTracksNot(stream) == streams
StopTracks(stream) == [streams EXCEPT ![stream] = "stopped"]

\* the rate createWavBlob is called with
StopSampleRateFixed == DeviceRates[1]
StopSampleRate == currentRecording.sampleRate

\* the stop handler
StopHandler ==
    IF StopGuard
    THEN /\ stopOutcome' = "noSession"
         /\ UNCHANGED << captureVars, delivered, merged, encodedRate, lastAlert >>
    ELSE IF currentRecording = NoRecording
    THEN \* destructuring null or undefined throws a TypeError
         /\ stopOutcome' = "threw"
         /\ UNCHANGED << captureVars, delivered, merged, encodedRate, lastAlert >>
    ELSE /\ recorderConnected' =
                IF recorder # 0 THEN [recorderConnected EXCEPT ![recorder] = FALSE]
                ELSE recorderConnected
         /\ sourceConnected' =
                IF recorder # 0 THEN [sourceConnected EXCEPT ![mediaStreamSource] = FALSE]
                ELSE sourceConnected
         /\ streams' = StopTracks(currentRecording.stream)
         /\ merged' = mergeBuffers(chunksOf[currentRecording.chunks])
         /\ recordedBlob' = createWavBlob(merged', StopSampleRate)
         /\ encodedRate' = StopSampleRate
         /\ recordedAudio' = [src |-> recordedBlob', hidden |-> FALSE]
         /\ recordingStatus' = [recordingStatus EXCEPT !.text = "saved"]
         /\ stopRecordBtnDisabled' = TRUE
         /\ startRecordBtnDisabled' = FALSE
         /\ audioFileInputFiles' = 0
         /\ audioFileNameShow' = FALSE
         /\ currentRecording' = NoRecording
         /\ stopOutcome' = "recorded"
         /\ UNCHANGED << audioContext, mediaStreamSource, recorder, nSessions,
                         chunksOf, contextRate, pendingStarts, device, delivered, lastAlert >>

\* a click on the stop button: a disabled button dispatches no click
StopClick ==
    /\ IF stopRecordBtnDisabled
       THEN /\ stopOutcome' = "ignored"
            /\ UNCHANGED << captureVars, delivered, merged, encodedRate, lastAlert >>
       ELSE StopHandler
    /\ UNCHANGED << script, wavVars, transferVars >>

\* if (e.target.files.length > 0) { ...; recordedBlob = null; }
AudioFileChosenKeepsBlob(n) == recordedBlob
AudioFileChosen(n) == IF n > 0 THEN Null ELSE recordedBlob

\* the change event of the audio file input, with n files chosen
AudioFileChange ==
    /\ \E n \in {0, 1} :
        /\ audioFileInputFiles' = n
        /\ audioFileNameShow' = IF n > 0 THEN TRUE ELSE audioFileNameShow
        /\ recordedBlob' = AudioFileChosen(n)
    /\ UNCHANGED << script, audioContext, mediaStreamSource, recorder, currentRecording,
                    heapVars, startRecordBtnDisabled, stopRecordBtnDisabled,
                    recordingStatus, recordedAudio, pendingStarts, device, historyVars, wavVars, transferVars >>

Next ==
    \/ StartClick
    \/ GetUserMediaResolve
    \/ GetUserMediaReject
    \/ \E k \in Sessions : AudioProcess(k)
    \/ StopClick
    \/ AudioFileChange

Spec == Init /\ [][Next]_vars

(***************************************************************************)
(* Submissions: the embed and extract handlers                             *)
(***************************************************************************)
\* response bodies the service sends
BinaryBody == "<bytes of a PNG or WAV file>"
ResultBody == "{\"file_id\":\"f1\",\"file_size_mb\":1.5,\"dimensions\":[64,64],\"duration\":2.0,\"sample_rate\":44100,\"output_file\":\"/out/f1\"}"
PlainBody == "Internal Server Error"
DetailBody == "{\"detail\":\"No hidden audio found\"}"
EmptyJsonBody == "{}"

\* the responses fetch resolves with: a success status with the artifact,
\* or a failure status with a diagnostic in JSON or in plain text
Responses ==
    [ok : {TRUE}, body : {BinaryBody, ResultBody}]
        \cup [ok : {FALSE}, body : {PlainBody, DetailBody, EmptyJsonBody}]

\* response.json(): whether the body parses, and what the parsed object holds
JsonValid(body) == body \in {ResultBody, DetailBody, EmptyJsonBody}
JsonDetail(body) == IF body = DetailBody THEN "No hidden audio found" ELSE ""
JsonHasResult(body) == body = ResultBody

\* response.text(): the body as it was sent
ResponseText(body) == body

Kinds == { "embed", "extract" }
DownloadName(kind) == IF kind = "embed" THEN "embedded.png" ELSE "extracted.wav"
FailedDefault(kind) == IF kind = "embed" THEN "Embedding failed" ELSE "Extraction failed"

Failed(message) == [type |-> "failed", text |-> message]
Succeeded(content) == [type |-> "succeeded", text |-> content]

\* the input the click handler misses, "" when none is missing
MissingInputAudioOnly(kind) ==
    IF kind = "extract"
    THEN IF extractImageFileInputFiles = 0 THEN "Choose PNG!" ELSE ""
    ELSE IF uploadAudioDivHidden /\ recordedBlob = Null THEN "Record audio first!"
    ELSE IF ~uploadAudioDivHidden /\ audioFileInputFiles = 0 THEN "Choose audio!"
    ELSE ""
MissingInput(kind) ==
    IF kind = "extract"
    THEN IF extractImageFileInputFiles = 0 THEN "Choose PNG!" ELSE ""
    ELSE IF uploadAudioDivHidden /\ recordedBlob = Null THEN "Record audio first!"
    ELSE IF ~uploadAudioDivHidden /\ audioFileInputFiles = 0 THEN "Choose audio!"
    ELSE IF imageFileInputFiles = 0 THEN "Choose image!"
    ELSE ""

\* a click on the embed or the extract button, up to the fetch call
SubmitClick(kind) ==
    /\ IF MissingInput(kind) # ""
       THEN \* return alert(...): the finally block still runs
            /\ lastAlert' = [prefix |-> "", message |-> MissingInput(kind)]
            /\ loadingHidden' = TRUE
            /\ UNCHANGED << requests, nSent >>
       ELSE /\ nSent < MaxRequests
            /\ loadingHidden' = FALSE
            /\ requests' = Append(requests, kind)
            /\ nSent' = nSent + 1
            /\ UNCHANGED lastAlert
    /\ UNCHANGED << script, captureVars, delivered, merged, encodedRate, stopOutcome, wavVars,
                    formVars, embedResult, extractResult, downloads, settled >>

\* requests without its i-th element
Without(seq, i) == [j \in 1..(Len(seq) - 1) |-> IF j < i THEN seq[j] ELSE seq[j + 1]]

\* catch (err) { alert("Error: " + err.message) }: the handler reports the
\* failure and does nothing else; it touches no result and calls fetch no
\* second time
CatchSubmitHidesResults(message) ==
    /\ lastAlert' = [prefix |-> "Error: ", message |-> message]
    /\ embedResult' = [embedResult EXCEPT !.hidden = TRUE]
    /\ extractResult' = [extractResult EXCEPT !.hidden = TRUE]
    /\ UNCHANGED << downloads, nSent >>
CatchSubmitRetries(message) ==
    /\ lastAlert' = [prefix |-> "Error: ", message |-> message]
    /\ nSent' = nSent + 1
    /\ UNCHANGED << embedResult, extractResult, downloads >>
CatchSubmit(message) ==
    /\ lastAlert' = [prefix |-> "Error: ", message |-> message]
    /\ UNCHANGED << embedResult, extractResult, downloads, nSent >>

\* fetch rejects: the network failed.  The catch block alerts, the finally
\* block hides the loading indicator.
FetchRejects(id) ==
    /\ id \in 1..Len(requests)
    /\ CatchSubmit("Failed to fetch")
    /\ settled' = [kind |-> requests[id], id |-> id, response |-> NetworkError,
                   outcome |-> Failed("Failed to fetch")]
    /\ requests' = Without(requests, id)
    /\ loadingHidden' = TRUE
    /\ UNCHANGED << script, captureVars, delivered, merged, encodedRate, stopOutcome, wavVars,
                    formVars >>

\* what the handler of part_000 makes of a response:
\* if (!response.ok) throw new Error(await response.text()), else the blob
OutcomeBinaryOfLast(kind, r) ==
    IF ~settled.response.ok THEN Failed(ResponseText(settled.response.body))
    ELSE Succeeded(settled.response.body)
OutcomeBinary(kind, r) ==
    IF ~r.ok THEN Failed(ResponseText(r.body)) ELSE Succeeded(r.body)

\* what the handler of static/script.js makes of it: response.json() first,
\* then result.detail on a failure status and the result's fields otherwise
OutcomeJson(kind, r) ==
    IF ~JsonValid(r.body) THEN Failed("Unexpected token in JSON")
    ELSE IF ~r.ok THEN Failed(IF JsonDetail(r.body) # "" THEN JsonDetail(r.body)
                              ELSE FailedDefault(kind))
    ELSE IF ~JsonHasResult(r.body) THEN Failed("Cannot read properties of undefined")
    ELSE Succeeded(r.body)

Outcome(kind, r) ==
    IF script = "part_000" THEN OutcomeBinary(kind, r) ELSE OutcomeJson(kind, r)

\* fetch resolves with a response and the handler reads its body (text() or
\* blob() in part_000, json() in static/script.js); the handler does nothing
\* between the two awaits, so the two are one step.  Then the rest of the
\* handler runs, catch and finally included.
FetchResolves(id) ==
    /\ id \in 1..Len(requests)
    /\ \E r \in Responses :
        LET kind == requests[id]
            out == Outcome(kind, r)
            shown == [content |-> out.text, hidden |-> FALSE]
        IN  /\ settled' = [kind |-> kind, id |-> id, response |-> r, outcome |-> out]
            /\ IF out.type = "failed"
               THEN CatchSubmit(out.text)
               ELSE /\ embedResult' = IF kind = "embed" THEN shown ELSE embedResult
                    /\ extractResult' = IF kind = "extract" THEN shown ELSE extractResult
                    /\ downloads' =
                         IF script = "part_000"
                         THEN Append(downloads, [name |-> DownloadName(kind),
                                                 content |-> out.text])
                         ELSE downloads
                    /\ UNCHANGED << lastAlert, nSent >>
    /\ requests' = Without(requests, id)
    /\ loadingHidden' = TRUE
    /\ UNCHANGED << script, captureVars, delivered, merged, encodedRate, stopOutcome, wavVars,
                    formVars >>

\* a click on one of the two mode buttons
ModeClick ==
    /\ embedResult' = [embedResult EXCEPT !.hidden = TRUE]
    /\ extractResult' = [extractResult EXCEPT !.hidden = TRUE]
    /\ UNCHANGED << script, captureVars, historyVars, wavVars, formVars, loadingHidden,
                    requests, nSent, downloads, settled >>

\* a click on one of the two input type buttons
InputTypeClick ==
    /\ \E type \in { "upload", "record" } : uploadAudioDivHidden' = (type # "upload")
    /\ UNCHANGED << script, captureVars, historyVars, wavVars, imageFileInputFiles,
                    extractImageFileInputFiles, loadingHidden, embedResult,
                    extractResult, requests, nSent, downloads, settled >>

\* the change events of the two image file inputs, with n files chosen
ImageFileChange ==
    /\ \E n \in {0, 1} : imageFileInputFiles' = n
    /\ UNCHANGED << script, captureVars, historyVars, wavVars, uploadAudioDivHidden,
                    extractImageFileInputFiles, loadingHidden, embedResult,
                    extractResult, requests, nSent, downloads, settled >>

ExtractImageFileChange ==
    /\ \E n \in {0, 1} : extractImageFileInputFiles' = n
    /\ UNCHANGED << script, captureVars, historyVars, wavVars, uploadAudioDivHidden,
                    imageFileInputFiles, loadingHidden, embedResult,
                    extractResult, requests, nSent, downloads, settled >>

\* the page with its submissions, opened either fresh or with a recording
\* (of no block) made before
NextTransfer ==
    \/ \E kind \in Kinds : SubmitClick(kind)
    \/ \E id \in 1..MaxRequests : FetchRejects(id)
    \/ \E id \in 1..MaxRequests : FetchResolves(id)
    \/ ModeClick
    \/ InputTypeClick
    \/ ImageFileChange
    \/ ExtractImageFileChange
    \/ AudioFileChange

SpecTransfer == InitSubmissions /\ [][NextTransfer]_vars

(***************************************************************************)
(* Claims about recording (checked under Spec)                             *)
(***************************************************************************)
\* the step in which the stop handler finalizes the active session
StopStep == currentRecording # NoRecording /\ currentRecording' = NoRecording

\* a step in which a driver hands over a block
BlockStep == delivered' # delivered

\* the step in which a start handler's getUserMedia call is rejected
RejectStep == pendingStarts' = pendingStarts - 1 /\ nSessions' = nSessions

\* a click on the stop button (every click sets stopOutcome; a click that
\* comes to what the click before it came to, and changes nothing, is a
\* stuttering step)
StopClickStep == stopOutcome' # stopOutcome

RECURSIVE Concat(_)
Concat(blocks) == IF blocks = << >> THEN << >> ELSE Head(blocks) \o Concat(Tail(blocks))

RECURSIVE TotalLength(_)
TotalLength(blocks) ==
    IF blocks = << >> THEN 0 ELSE Len(Head(blocks)) + TotalLength(Tail(blocks))

\* the 16-bit value createWavBlob stores for each sample value on its own
Encodings ==
    [s \in Samples |-> StoredSample(createWavBlob(<< s >>, DeviceRates[1]).bytes, 1)]
EncodingOf(s) == Encodings[s]

\* C4: the PCM data encoded at stop is b1 ++ ... ++ bn for the blocks b1..bn
\* the driver delivered to the session since its start, in delivery order,
\* none dropped, duplicated or interleaved; its length is the sum of the
\* block lengths.
C4_BlocksInOrder ==
    [][StopStep =>
        LET pcm == Concat(delivered[currentRecording.chunks])
            bytes == recordedBlob'.bytes
        IN  /\ merged' = pcm
            /\ Len(merged') = TotalLength(delivered[currentRecording.chunks])
            /\ Len(bytes) = 44 + 2 * Len(pcm)
            /\ \A i \in 1..Len(pcm) : StoredSample(bytes, i) = EncodingOf(pcm[i])
      ]_vars

C4_Witness == recordedBlob # Null /\ Len(merged) >= 2 * bufferSize

\* C5: a click on stop when no session is active raises no error and
\* changes nothing: recordedBlob, the button states and the rest of the
\* capture state stay as they are.
C5_StopWithoutSession ==
    [][(StopClickStep /\ currentRecording = NoRecording) =>
        /\ stopOutcome' \in { "noSession", "ignored" }
        /\ UNCHANGED << captureVars, delivered, merged, encodedRate, lastAlert >>
      ]_vars

C5_Witness == stopOutcome = "noSession" /\ currentRecording = NoRecording

\* C6: a start that fails is reported and keeps no capture state:
\* window.currentRecording, recordedBlob and the button states are what they
\* were, and no stream is held that was not held before.
C6_FailedStart ==
    [][RejectStep =>
        /\ lastAlert'.message \in DeviceErrors
        /\ UNCHANGED << currentRecording, recordedBlob, startRecordBtnDisabled,
                        stopRecordBtnDisabled, streams, globalVars, heapVars, domVars >>
      ]_vars

C6_Witness == lastAlert # NoAlert /\ currentRecording # NoRecording

\* C7: a stop on an active session disconnects its capture graph, stops its
\* stream's tracks and clears the session slot, so that it cannot be
\* finalized again; a block delivered afterwards (or at any time) leaves the
\* recording that a stop produced as it is.
C7_FinalizedOnce ==
    [][/\ StopStep =>
            LET k == currentRecording.stream
            IN  /\ ~recorderConnected'[k]
                /\ ~sourceConnected'[k]
                /\ streams'[k] = "stopped"
                /\ currentRecording' = NoRecording
                /\ stopRecordBtnDisabled'
                /\ recordedBlob' # Null
       /\ BlockStep => recordedBlob' = recordedBlob /\ recordedAudio' = recordedAudio
      ]_vars

\* session 1 was stopped and its driver has delivered a block since
C7_Witness ==
    /\ nSessions = 1
    /\ streams[1] = "stopped"
    /\ recordedBlob # Null
    /\ Len(delivered[1]) * bufferSize > Len(merged)

\* C8 as claimed: at most one acquired and not yet released stream exists,
\* and it is the stream of the active session (the one a stop releases).
C8_OneLiveStream ==
    /\ Cardinality({ k \in Sessions : streams[k] = "live" }) <= 1
    /\ \A k \in Sessions : streams[k] = "live" => currentRecording.stream = k

\* C9: the SampleRate field of the WAV made at stop is the rate the
\* session's context reported at start, ByteRate is twice that, and the
\* duration dataSize / ByteRate is (N * B) / R for the N blocks of B samples.
C9_RateAndDuration ==
    [][StopStep =>
        LET k == currentRecording.stream
            bytes == recordedBlob'.bytes
            N == Len(delivered[k])
        IN  /\ getUint32(bytes, 24) = contextRate[k]
            /\ getUint32(bytes, 28) = 2 * contextRate[k]
            /\ getUint32(bytes, 40) * contextRate[k] = getUint32(bytes, 28) * N * bufferSize
      ]_vars

\* two sessions at different rates, the second recorded with all its blocks
C9_Witness ==
    /\ nSessions = 2
    /\ streams[1] = "stopped" /\ streams[2] = "stopped"
    /\ contextRate[1] # contextRate[2]
    /\ recordedBlob # Null
    /\ getUint32(recordedBlob.bytes, 24) = contextRate[2]
    /\ Len(merged) = MaxBlocks * bufferSize

\* a click on the stop button while the active session has received no block
StopOfEmptyStep ==
    /\ currentRecording # NoRecording
    /\ delivered[currentRecording.chunks] = << >>
    /\ StopStep \/ StopClickStep

\* C15: stopping a session to which no block was delivered does not fail:
\* the handler runs to its end and the recording it leaves is exactly 44
\* bytes long, with Subchunk2Size 0 (offset 40) and ChunkSize 36 (offset 4).
C15_EmptySession ==
    [][StopOfEmptyStep =>
        /\ stopOutcome' = "recorded"
        /\ currentRecording' = NoRecording
        /\ merged' = << >>
        /\ recordedBlob' # Null
        /\ Len(recordedBlob'.bytes) = 44
        /\ getUint32(recordedBlob'.bytes, 40) = 0
        /\ getUint32(recordedBlob'.bytes, 4) = 36
      ]_vars

\* C18: a block is immutable once appended: in every step each chunk a
\* session holds keeps its samples, in particular in the step in which the
\* driver overwrites its delivery buffer with the next block; that step
\* appends the new block, as delivered, behind the chunks held before.
C18_BlocksImmutable ==
    [][\A k \in Sessions :
        /\ \A i \in 1..Len(chunksOf[k]) :
                Len(chunksOf'[k]) >= i /\ chunksOf'[k][i] = chunksOf[k][i]
        /\ delivered'[k] # delivered[k] =>
                /\ Len(chunksOf'[k]) = Len(chunksOf[k]) + 1
                /\ chunksOf'[k][Len(chunksOf'[k])] = delivered'[k][Len(delivered'[k])]
      ]_vars

\* a session holds two chunks: the first still has the samples delivered
\* first, although the driver has delivered other samples since
C18_Witness ==
    \E k \in Sessions :
        /\ Len(chunksOf[k]) >= 2
        /\ chunksOf[k][1] = Block(k, 1)
        /\ delivered[k][2] # Block(k, 1)

\* C19: the recorded audio and a selected audio file are never both
\* present, after any sequence of file selections, starts and stops.
C19_RecordingOrFile == ~(recordedBlob # Null /\ audioFileInputFiles > 0)

\* a recording was made and a file selected after it took its place
C19_Witness ==
    /\ stopOutcome = "recorded" /\ recordedAudio.src # Null
    /\ recordedBlob = Null /\ audioFileInputFiles > 0

\* a session is active: window.currentRecording is set
Active == currentRecording # NoRecording

\* the controls say "recording": start disabled and stop enabled
ControlsRecording == startRecordBtnDisabled /\ ~stopRecordBtnDisabled

\* C21: in every state after the first successful start a session is
\* active exactly when the start control is disabled and the stop control
\* is enabled; and from such a state on, a step that changes one of the
\* three (session active, start disabled, stop disabled) changes all three.
C21_ControlsFollowSession ==
    /\ [](nSessions >= 1 => (Active <=> ControlsRecording))
    /\ [][(/\ nSessions >= 1
            /\ \/ Active' # Active
               \/ startRecordBtnDisabled' # startRecordBtnDisabled
               \/ stopRecordBtnDisabled' # stopRecordBtnDisabled) =>
            /\ Active' # Active
            /\ startRecordBtnDisabled' # startRecordBtnDisabled
            /\ stopRecordBtnDisabled' # stopRecordBtnDisabled
            /\ startRecordBtnDisabled' = Active'
            /\ stopRecordBtnDisabled' = ~Active'
         ]_vars

\* a start, a stop and a second start have each switched the three
C21_Witness ==
    /\ nSessions = 2 /\ stopOutcome = "recorded"
    /\ Active /\ ControlsRecording
    /\ streams[1] = "stopped" /\ streams[2] = "live"

\* a session was started and stopped and no driver has delivered a block
C15_Witness ==
    /\ nSessions >= 1 /\ stopOutcome = "recorded"
    /\ \A k \in Sessions : delivered[k] = << >>
    /\ recordedBlob # Null /\ Len(recordedBlob.bytes) = 44

(***************************************************************************)
(* Claims about submissions (checked under SpecTransfer)                   *)
(***************************************************************************)
\* C10: when a submission receives a failure status, the failure diagnostic
\* is the text of the response body, verbatim: the body is not parsed as
\* JSON and no field of it is used.
C10_VerbatimDiagnostic ==
    (settled # NoneSettled /\ settled.response # NetworkError /\ ~settled.response.ok) =>
        settled.outcome = [type |-> "failed", text |-> settled.response.body]

\* a required input of a submission of this kind is absent
Absent(kind) ==
    IF kind = "extract" THEN extractImageFileInputFiles = 0
    ELSE \/ uploadAudioDivHidden /\ recordedBlob = Null
         \/ ~uploadAudioDivHidden /\ audioFileInputFiles = 0
         \/ imageFileInputFiles = 0

\* a step in which a request is sent for a submission of this kind
SendStep(kind) == nSent' # nSent /\ requests' = Append(requests, kind)

\* a step in which a submission settles: its handler runs to its end
SettleStep == settled' # settled \/ Len(requests') < Len(requests)

\* a click on a submit button that the handler rejects for a missing input
\* (a rejected click that changes nothing at all is a stuttering step)
RejectedClickStep ==
    /\ requests' = requests
    /\ lastAlert' # lastAlert \/ loadingHidden' # loadingHidden

\* C11: a submit click with a required input absent (embed: no recording in
\* record mode, no audio file in upload mode, or no image; extract: no
\* image) sends no request, and the rejected click produces and changes no
\* result: a request of a kind is sent only from a state where no input of
\* that kind is absent, and every request sent is sent by such a step.
C11_MissingInputRejected ==
    [][/\ \A kind \in Kinds : SendStep(kind) => ~Absent(kind)
       /\ nSent' # nSent => \E kind \in Kinds : SendStep(kind)
       /\ RejectedClickStep =>
            /\ \E kind \in Kinds : Absent(kind)
            /\ lastAlert'.prefix = "" /\ lastAlert'.message # ""
            /\ nSent' = nSent
            /\ embedResult' = embedResult /\ extractResult' = extractResult
            /\ downloads' = downloads /\ settled' = settled
      ]_vars

\* an embed click was rejected for the missing image after a request was sent
C11_Witness ==
    /\ lastAlert = [prefix |-> "", message |-> "Choose image!"]
    /\ imageFileInputFiles = 0
    /\ nSent = 1

\* a step in which a submission fails: fetch rejected, or the response has
\* a failure status
FailStep == SettleStep /\ ~settled'.response.ok

\* C12: a submission that fails (failure status or network failure) leaves
\* the artifact displayed by the last successful submission as it was:
\* the content of each result panel (its preview reference included), its
\* visibility and the files downloaded so far are unchanged by that step.
C12_FailureKeepsArtifact ==
    [][FailStep =>
        /\ settled'.outcome.type = "failed"
        /\ embedResult' = embedResult
        /\ extractResult' = extractResult
        /\ downloads' = downloads
      ]_vars

\* an embed submission failed while the result of an earlier one is on show
C12_Witness ==
    /\ settled.kind = "embed" /\ ~settled.response.ok
    /\ settled.outcome.type = "failed"
    /\ embedResult # NoResult /\ ~embedResult.hidden

\* what a submission of this kind comes to when r is the answer to its own
\* request and nothing else is read
OwnOutcome(kind, r) ==
    IF r = NetworkError THEN Failed("Failed to fetch")
    ELSE IF script = "part_000"
    THEN [type |-> IF r.ok THEN "succeeded" ELSE "failed", text |-> r.body]
    ELSE OutcomeJson(kind, r)

\* C13: when a submission settles while another is outstanding, the other
\* stays in flight until its own response arrives, and the outcome of the
\* one that settles is decided by its own response alone: on success its
\* own artifact is shown (and, in part_000, downloaded under the name of
\* its kind), on failure its own diagnostic is reported; this holds
\* whichever of the two responses arrives first.
C13_IndependentSubmissions ==
    [][(SettleStep /\ Len(requests) >= 2) =>
        LET id == settled'.id
            kind == settled'.kind
            r == settled'.response
            out == settled'.outcome
            shown == [content |-> r.body, hidden |-> FALSE]
        IN  /\ id \in 1..Len(requests) /\ requests[id] = kind
            /\ Len(requests') = Len(requests) - 1
            /\ \A j \in 1..Len(requests') :
                    requests'[j] = IF j < id THEN requests[j] ELSE requests[j + 1]
            /\ out = OwnOutcome(kind, r)
            /\ IF out.type = "succeeded"
               THEN /\ embedResult' = IF kind = "embed" THEN shown ELSE embedResult
                    /\ extractResult' = IF kind = "extract" THEN shown ELSE extractResult
                    /\ script = "part_000" =>
                         downloads' = Append(downloads,
                            [name |-> IF kind = "embed" THEN "embedded.png"
                                      ELSE "extracted.wav",
                             content |-> r.body])
                    /\ lastAlert' = lastAlert
               ELSE /\ lastAlert' = [prefix |-> "Error: ", message |-> out.text]
                    /\ downloads' = downloads
      ]_vars

\* the response to the younger of two overlapping submissions arrived first
\* and its artifact was downloaded while the older one is still outstanding
C13_Witness ==
    /\ settled.id = 2 /\ settled.outcome.type = "succeeded"
    /\ Len(requests) = 1 /\ requests[1] # settled.kind
    /\ downloads # << >>

\* C14: a request is sent only by the step of a submit click, which sends
\* exactly one; the step in which a submission fails reports the failure
\* (one alert with its diagnostic), ends that submission and sends nothing:
\* no retry.  The requests in flight never outnumber the requests sent.
C14_NoRetry ==
    [][/\ nSent' # nSent =>
            /\ nSent' = nSent + 1
            /\ \E kind \in Kinds : requests' = Append(requests, kind)
            /\ ~loadingHidden' /\ settled' = settled /\ lastAlert' = lastAlert
       /\ (SettleStep /\ settled'.outcome.type = "failed") =>
            /\ nSent' = nSent
            /\ Len(requests') = Len(requests) - 1
            /\ lastAlert' = [prefix |-> "Error: ", message |-> settled'.outcome.text]
       /\ Len(requests') <= nSent'
      ]_vars

\* the one submission made has failed and nothing is in flight
C14_Witness ==
    /\ settled.outcome.type = "failed"
    /\ nSent = 1 /\ requests = << >>
    /\ lastAlert.prefix = "Error: "

\* C20 as claimed: the loading indicator is visible exactly when at least
\* one submission is outstanding, for every outcome of a submission and
\* also when submissions overlap.
C20_LoadingWhileOutstanding == loadingHidden <=> requests = << >>

(***************************************************************************)
(* The encoder on its own: createWavBlob applied to a buffer and a rate    *)
(***************************************************************************)
Buffers == UNION { [1..n -> Samples] : n \in 0..MaxLen }

InitEncoder ==
    /\ script \in Scripts /\ InitCapture /\ InitTransfer
    /\ wavBuf \in Buffers /\ wavRate \in SampleRates /\ wavBlob = Null

EncodeCall ==
    /\ wavBlob = Null
    /\ wavBlob' = createWavBlob(wavBuf, wavRate)
    /\ UNCHANGED << wavBuf, wavRate, script, captureVars, historyVars, transferVars >>

NextWav == EncodeCall

SpecWav == InitEncoder /\ [][NextWav]_vars

\* the page calls createWavBlob a second time, at any moment after a stop,
\* with the buffer and the rate the stop handler called it with
EncodeAgain ==
    /\ stopOutcome = "recorded"
    /\ wavBuf' = merged
    /\ wavRate' = encodedRate
    /\ wavBlob' = createWavBlob(merged, encodedRate)
    /\ UNCHANGED << script, captureVars, historyVars, transferVars >>

\* capture sessions, with the second call at any moment
NextAgain ==
    \/ StartClick
    \/ GetUserMediaResolve
    \/ \E k \in Sessions : AudioProcess(k)
    \/ StopClick
    \/ EncodeAgain

SpecAgain == Init /\ [][NextAgain]_vars

Encoded == wavBlob # Null

\* s limited to [-1, 1]
Limited(s) == IF s > One THEN One ELSE IF s < -One THEN -One ELSE s

\* C1: for a buffer of length L the container is 44 + 2L bytes long, its
\* ChunkSize (u32 LE at 4) is 36 + 2L and its Subchunk2Size (u32 LE at 40) is 2L.
C1_HeaderSizes ==
    Encoded =>
        /\ Len(wavBlob.bytes) = 44 + 2 * Len(wavBuf)
        /\ getUint32(wavBlob.bytes, 4) = 36 + 2 * Len(wavBuf)
        /\ getUint32(wavBlob.bytes, 40) = 2 * Len(wavBuf)

C1_Witness == Encoded /\ Len(wavBuf) = MaxLen

\* the bytes of the container from offset o, n of them
BytesAt(o, n) == SubSeq(wavBlob.bytes, o + 1, o + n)

\* C16: for every buffer and rate the container starts with "RIFF" at 0 and
\* has "WAVE" at 8, "fmt " at 12, Subchunk1Size 16 at 16, AudioFormat 1 at
\* 20, NumChannels 1 at 22, BlockAlign 2 at 32, BitsPerSample 16 at 34 and
\* "data" at 36, every integer with its low byte first (the sample rate at
\* 24 too); the samples start at offset 44, one 16-bit little-endian value
\* for each input sample, in the order of the input.
C16_FixedHeader ==
    Encoded =>
        /\ BytesAt(0, 4) = << 82, 73, 70, 70 >>
        /\ BytesAt(8, 4) = << 87, 65, 86, 69 >>
        /\ BytesAt(12, 4) = << 102, 109, 116, 32 >>
        /\ BytesAt(16, 4) = << 16, 0, 0, 0 >>
        /\ BytesAt(20, 2) = << 1, 0 >>
        /\ BytesAt(22, 2) = << 1, 0 >>
        /\ BytesAt(24, 4) = << wavRate % 256, (wavRate \div 256) % 256,
                                (wavRate \div 65536) % 256, 0 >>
        /\ BytesAt(32, 2) = << 2, 0 >>
        /\ BytesAt(34, 2) = << 16, 0 >>
        /\ BytesAt(36, 4) = << 100, 97, 116, 97 >>
        /\ Len(wavBlob.bytes) = 44 + 2 * Len(wavBuf)
        /\ \A i \in 1..Len(wavBuf) :
            LET u == Encodings[wavBuf[i]] % 65536
            IN  BytesAt(44 + 2 * (i - 1), 2) = << u % 256, u \div 256 >>

\* a buffer of the greatest length that begins with -0.5 and ends with 0.25
C16_Witness ==
    /\ Encoded /\ Len(wavBuf) = MaxLen
    /\ wavBuf[1] = -Half /\ wavBuf[MaxLen] = Half \div 2
    /\ BytesAt(44, 2) = << 0, 192 >>

\* s * 32768 = c / NegUnit when s = c / SampleDen
NegUnit == SampleDen \div 32768

\* v is an integer nearest to the scaled sample (whichever way a tie goes)
IsNearest(c, v) ==
    IF c < 0
    THEN LET d == c - v * NegUnit IN 2 * d <= NegUnit /\ 2 * d >= -NegUnit
    ELSE LET d == c * 32767 - v * SampleDen IN d <= Half /\ d >= -Half

\* v is the scaled sample with its fraction dropped (rounded toward zero)
IsTruncation(c, v) ==
    IF c < 0
    THEN v <= 0 /\ v * NegUnit >= c /\ v * NegUnit - c < NegUnit
    ELSE v >= 0 /\ v * SampleDen <= c * 32767 /\ c * 32767 - v * SampleDen < SampleDen

\* C2 as claimed: every stored value is round(s * 32768) for s < 0 and
\* round(s * 32767) otherwise, s being the sample clamped to [-1, 1].
C2_Rounded ==
    Encoded =>
        \A i \in 1..Len(wavBuf) :
            IsNearest(Limited(wavBuf[i]), StoredSample(wavBlob.bytes, i))

\* C2 amended: every stored value is the scaled clamped sample with its
\* fraction dropped: the integer part of s * 32768 for s < 0 and of
\* s * 32767 otherwise, rounded toward zero.
C2_Truncated ==
    Encoded =>
        \A i \in 1..Len(wavBuf) :
            IsTruncation(Limited(wavBuf[i]), StoredSample(wavBlob.bytes, i))

\* a negative and a positive sample whose scaled values are not integers
C2_Witness ==
    /\ Encoded
    /\ \E i \in 1..Len(wavBuf) : wavBuf[i] = -3 /\ StoredSample(wavBlob.bytes, i) = -1
    /\ \E i \in 1..Len(wavBuf) : wavBuf[i] = Half \div 2 /\ StoredSample(wavBlob.bytes, i) = 8191

\* C3: 1.0 is stored as 32767, -1.0 as -32768, 0.0 as 0; a sample above 1
\* is stored as 1.0 is and a sample below -1 as -1.0 is; every stored value
\* lies in -32768..32767.
C3_Boundaries ==
    Encoded =>
        \A i \in 1..Len(wavBuf) :
            LET v == StoredSample(wavBlob.bytes, i)
                s == wavBuf[i]
            IN  /\ v \in -32768..32767
                /\ (s = One => v = 32767)
                /\ (s = -One => v = -32768)
                /\ (s = 0 => v = 0)
                /\ (s > One => v = StoredSample(createWavBlob(<< One >>, wavRate).bytes, 1))
                /\ (s < -One => v = StoredSample(createWavBlob(<< -One >>, wavRate).bytes, 1))

C3_Witness ==
    /\ Encoded
    /\ \E i \in 1..Len(wavBuf) : wavBuf[i] = 3 * Half /\ StoredSample(wavBlob.bytes, i) = 32767
    /\ \E i \in 1..Len(wavBuf) : wavBuf[i] = -(3 * Half) /\ StoredSample(wavBlob.bytes, i) = -32768

====
